---- MODULE Spec2Model ----
(***************************************************************************)
(* A model of the reformat package: the rule catalogs (rules.py), the      *)
(* prompt templates and their registry (templates.py), PromptReformatter   *)
(* (reformatter.py) and the search loop PromptImprover.improve             *)
(* (improver.py).  Text is modelled by TLA+ strings, renderings are        *)
(* computed character by character as the Python code computes them.      *)
(***************************************************************************)
EXTENDS Integers, Sequences, FiniteSets, TLC

(***************************************************************************)
(* Bounds of the model.                                                    *)
(***************************************************************************)
\* how many calls of PromptReformatter methods the caller makes in one behaviour
MaxCalls == 3
\* how many times in a row a caller applies a rule to a text
MaxApplies == 2
\* the largest item index whose token a rule is applied to
MaxIndex == 12
\* the largest num_iterations * num_candidates of an improve run
MaxCandidates == 2

(***************************************************************************)
(* State.                                                                  *)
(***************************************************************************)
VARIABLES
    refs,       \* the caller's PromptReformatter objects
    bound,      \* the reformatter attribute of each registry template
    lastOp,     \* the last call the caller made and what it returned or raised
    ncalls,     \* calls of PromptReformatter methods so far
    pc,         \* where the running improve call is; "idle" when none runs
    run,        \* the arguments, locals and result of the improve call
    catalog,    \* the list each get_default_rules classmethod returns
    app,        \* the last direct call of a rule's apply and its result
    ren         \* a template rendering or a format command: input and outcome

vars == << refs, bound, lastOp, ncalls, pc, run, catalog, app, ren >>
improveVars == << pc, run >>
ruleVars == << catalog, app, ren >>

(***************************************************************************)
(* Python str operations used by the code.                                 *)
(***************************************************************************)
LowerChars == "abcdefghijklmnopqrstuvwxyz"
UpperChars == "ABCDEFGHIJKLMNOPQRSTUVWXYZ"

CharAt(s, i) == SubSeq(s, i, i)

\* position of the one-character string c in s, 0 when absent
RECURSIVE IndexFrom(_, _, _)
IndexFrom(s, c, i) ==
    IF i > Len(s) THEN 0
    ELSE IF CharAt(s, i) = c THEN i
    ELSE IndexFrom(s, c, i + 1)

IsLower(c) == IndexFrom(LowerChars, c, 1) # 0
IsUpper(c) == IndexFrom(UpperChars, c, 1) # 0
IsCased(c) == IsLower(c) \/ IsUpper(c)

\* UpperChar with the bug of swapping the case
UpperCharSwapped(c) ==
    IF IsLower(c) THEN CharAt(UpperChars, IndexFrom(LowerChars, c, 1))
    ELSE IF IsUpper(c) THEN CharAt(LowerChars, IndexFrom(UpperChars, c, 1))
    ELSE c

UpperChar(c) == IF IsLower(c) THEN CharAt(UpperChars, IndexFrom(LowerChars, c, 1)) ELSE c
LowerChar(c) == IF IsUpper(c) THEN CharAt(LowerChars, IndexFrom(UpperChars, c, 1)) ELSE c

\* str.upper()
RECURSIVE StrUpper(_)
StrUpper(s) == IF s = "" THEN "" ELSE UpperChar(CharAt(s, 1)) \o StrUpper(Tail(s))

\* str.lower()
RECURSIVE StrLower(_)
StrLower(s) == IF s = "" THEN "" ELSE LowerChar(CharAt(s, 1)) \o StrLower(Tail(s))

\* str.title(): a cased character is upper-cased when the character before it
\* is not cased, and lower-cased otherwise
RECURSIVE TitleFrom(_, _)
TitleFrom(s, prevCased) ==
    IF s = "" THEN ""
    ELSE LET c == CharAt(s, 1)
         IN (IF IsCased(c)
             THEN (IF prevCased THEN LowerChar(c) ELSE UpperChar(c))
             ELSE c) \o TitleFrom(Tail(s), IsCased(c))

StrTitle(s) == TitleFrom(s, FALSE)

\* str.startswith(p)
StartsWith(s, p) == Len(s) >= Len(p) /\ SubSeq(s, 1, Len(p)) = p

\* index of the first occurrence of the non-empty string p in s at or after i,
\* 0 when there is none (str.find, 1-based)
RECURSIVE FindFrom(_, _, _)
FindFrom(s, p, i) ==
    IF i + Len(p) - 1 > Len(s) THEN 0
    ELSE IF SubSeq(s, i, i + Len(p) - 1) = p THEN i
    ELSE FindFrom(s, p, i + 1)

\* `p in s`
Contains(s, p) == FindFrom(s, p, 1) # 0

\* str.replace(old, new) for a non-empty old: every non-overlapping
\* occurrence, scanning left to right
RECURSIVE StrReplace(_, _, _)
StrReplace(s, old, new) ==
    LET k == FindFrom(s, old, 1)
    IN IF k = 0 THEN s
       ELSE SubSeq(s, 1, k - 1) \o new
            \o StrReplace(SubSeq(s, k + Len(old), Len(s)), old, new)

\* str.split(sep) for a non-empty sep
RECURSIVE StrSplit(_, _)
StrSplit(s, sep) ==
    LET k == FindFrom(s, sep, 1)
    IN IF k = 0 THEN <<s>>
       ELSE <<SubSeq(s, 1, k - 1)>> \o StrSplit(SubSeq(s, k + Len(sep), Len(s)), sep)

\* str.split(sep, 1)
StrSplitOnce(s, sep) ==
    LET k == FindFrom(s, sep, 1)
    IN IF k = 0 THEN <<s>>
       ELSE <<SubSeq(s, 1, k - 1), SubSeq(s, k + Len(sep), Len(s))>>

IsSpace(c) == c \in {" ", "\n", "\t"}

RECURSIVE LStrip(_)
LStrip(s) == IF s # "" /\ IsSpace(CharAt(s, 1)) THEN LStrip(Tail(s)) ELSE s

RECURSIVE RStrip(_)
RStrip(s) ==
    IF s # "" /\ IsSpace(CharAt(s, Len(s))) THEN RStrip(SubSeq(s, 1, Len(s) - 1)) ELSE s

\* str.strip()
StrStrip(s) == RStrip(LStrip(s))

\* sep.join(parts)
RECURSIVE StrJoin(_, _)
StrJoin(sep, parts) ==
    IF parts = <<>> THEN ""
    ELSE IF Len(parts) = 1 THEN parts[1]
    ELSE parts[1] \o sep \o StrJoin(sep, Tail(parts))

\* str(i) for 0 <= i
Digits == "0123456789"

RECURSIVE IntToStr(_)
IntToStr(i) ==
    IF i < 10 THEN CharAt(Digits, i + 1)
    ELSE IntToStr(i \div 10) \o CharAt(Digits, (i % 10) + 1)

\* format_str.format(x): the replacement field "{}" is replaced by x
StrFormat(fs, x) ==
    LET k == FindFrom(fs, "{}", 1)
    IN IF k = 0 THEN fs
       ELSE SubSeq(fs, 1, k - 1) \o x \o SubSeq(fs, k + 2, Len(fs))

(***************************************************************************)
(* rules.py: the four rule classes and their default catalogs.             *)
(***************************************************************************)
SeparatorRule(name, separator) == [name |-> name, separator |-> separator]
CasingRule(name) == [name |-> name]
ItemFormattingRule(name, format_str) == [name |-> name, format_str |-> format_str]
EnumerationRule(name, enum_format) == [name |-> name, enum_format |-> enum_format]

SeparatorDefaultRules ==
    << SeparatorRule("Empty", ""), SeparatorRule("Space", " "),
       SeparatorRule("Double Space", "  "), SeparatorRule("Newline", "\n"),
       SeparatorRule("Double Newline", "\n\n"), SeparatorRule("Double Dash", " -- "),
       SeparatorRule("Semicolon", " ; "), SeparatorRule("Pipe", " || "),
       SeparatorRule("Sep", " <sep> "), SeparatorRule("Comma", ", "),
       SeparatorRule("Period", ". "), SeparatorRule("Double Colon", ":: "),
       SeparatorRule("Single Colon", ": "), SeparatorRule("Tab", "\t"),
       SeparatorRule("Newline Tab", "\n\t"), SeparatorRule("Triple Period", "...") >>

CasingDefaultRules ==
    << CasingRule("No Change"), CasingRule("Title"), CasingRule("Lower"),
       CasingRule("Upper") >>

ItemFormattingDefaultRules ==
    << ItemFormattingRule("Parentheses", "({})"), ItemFormattingRule("Dot", "{}."),
       ItemFormattingRule("Paren", "{})"), ItemFormattingRule("Underscore", "{}_"),
       ItemFormattingRule("Brackets", "[{}]"), ItemFormattingRule("Angle", "<{}>"),
       ItemFormattingRule("Roman Lower", "({})"), ItemFormattingRule("Roman Upper", "({})"),
       ItemFormattingRule("Alpha Lower", "({})"), ItemFormattingRule("Alpha Upper", "({})"),
       ItemFormattingRule("Numeric", "({})") >>

EnumerationDefaultRules ==
    << EnumerationRule("Numeric", "numeric"),
       EnumerationRule("Roman Upper", "roman_upper"),
       EnumerationRule("Roman Lower", "roman_lower"),
       EnumerationRule("Alpha Upper", "alpha_upper"),
       EnumerationRule("Alpha Lower", "alpha_lower") >>

\* the list literal each get_default_rules classmethod evaluates
DefaultCatalog ==
    [separator |-> SeparatorDefaultRules, casing |-> CasingDefaultRules,
     item_formatting |-> ItemFormattingDefaultRules,
     enumeration |-> EnumerationDefaultRules]

\* <Rule class of the axis>.get_default_rules(): the list a call returns now
GetDefaultRules(axis) == catalog[axis]

\* CasingRule.apply
CasingApply(rule, prompt) ==
    IF rule.name = "Title" THEN StrTitle(prompt)
    ELSE IF rule.name = "Lower" THEN StrLower(prompt)
    ELSE IF rule.name = "Upper" THEN StrUpper(prompt)
    ELSE prompt

roman_map == << "I", "II", "III", "IV", "V", "VI", "VII", "VIII", "IX", "X" >>
alpha_map == << "A", "B", "C", "D", "E", "F", "G", "H", "I", "J" >>

\* the loop of _convert_roman / _convert_alpha: for num = 1, 2, .., 10 in this
\* order, replace every occurrence of str(num) in the prompt
RECURSIVE ConvertFrom(_, _, _, _)
ConvertFrom(map, prompt, upper, num) ==
    IF num > Len(map) THEN prompt
    ELSE ConvertFrom(map,
                     StrReplace(prompt, IntToStr(num),
                                IF upper THEN map[num] ELSE StrLower(map[num])),
                     upper, num + 1)

ConvertRoman(prompt, upper) == ConvertFrom(roman_map, prompt, upper, 1)
ConvertAlpha(prompt, upper) == ConvertFrom(alpha_map, prompt, upper, 1)

\* EnumerationRule.apply
EnumerationApply(rule, prompt) ==
    IF rule.enum_format = "roman_lower" THEN ConvertRoman(prompt, FALSE)
    ELSE IF rule.enum_format = "roman_upper" THEN ConvertRoman(prompt, TRUE)
    ELSE IF rule.enum_format = "alpha_lower" THEN ConvertAlpha(prompt, FALSE)
    ELSE IF rule.enum_format = "alpha_upper" THEN ConvertAlpha(prompt, TRUE)
    ELSE prompt

(***************************************************************************)
(* templates.py: field values, the templates and the registry.             *)
(*                                                                         *)
(* A field-value mapping is a function from field names to values; a value *)
(* is Str(s) or List(items), an item being Example(input, output) or       *)
(* Str(s), so that the isinstance tests of the code can be made.           *)
(***************************************************************************)
Str(s) == [kind |-> "str", v |-> s]
List(items) == [kind |-> "list", v |-> items]
Example(input, output) == [kind |-> "Example", input |-> input, output |-> output]

GENERAL_TEMPLATE ==
    [name |-> "general",
     fields |-> << "Task", "Examples", "Input" >>,
     required_fields |-> << "Task", "Input" >>,
     separator |-> "\n\n"]

MULTIPLE_CHOICE_TEMPLATE ==
    [name |-> "multiple_choice",
     fields |-> << "Task", "Examples", "Question", "Options" >>,
     required_fields |-> << "Task", "Question", "Options" >>,
     separator |-> "\n\n"]

DEFAULT_TEMPLATES ==
    [n \in {"general", "multiple_choice"} |->
        IF n = "general" THEN GENERAL_TEMPLATE ELSE MULTIPLE_CHOICE_TEMPLATE]

TemplateNames == DOMAIN DEFAULT_TEMPLATES

\* MissingFields with the bug of reporting only the first absent field
MissingFieldsFirstOnly(t, fv) ==
    LET absent == SelectSeq(t.required_fields, LAMBDA f : f \notin DOMAIN fv)
    IN IF absent = <<>> THEN <<>> ELSE << absent[1] >>

\* templates.py:23, the required fields that are no key of field_values, in
\* the order of required_fields
MissingFields(t, fv) ==
    SelectSeq(t.required_fields, LAMBDA f : f \notin DOMAIN fv)

\* ItemNumber with the bug of leaving out the item formatting rule
ItemNumberUnformatted(i, has, rf) ==
    IF has /\ rf.enumeration_rules # <<>>
    THEN EnumerationApply(rf.enumeration_rules[1], IntToStr(i))
    ELSE IntToStr(i)

\* The enumerator token of item i (templates.py:46-57 and 93-102).  `has` says
\* whether the template object has a reformatter attribute, rf is that
\* reformatter.
ItemNumber(i, has, rf) ==
    LET plain == IntToStr(i)
        enumerated == IF has /\ rf.enumeration_rules # <<>>
                      THEN EnumerationApply(rf.enumeration_rules[1], plain)
                      ELSE plain
    IN IF has /\ rf.item_formatting_rules # <<>>
       THEN StrFormat(rf.item_formatting_rules[1].format_str, enumerated)
       ELSE enumerated

\* a label cased by the active casing rule (templates.py:31-33, 60-75)
CasedLabel(label, has, rf) ==
    IF has /\ rf.casing_rules # <<>>
    THEN CasingApply(rf.casing_rules[1], label)
    ELSE label

\* FieldSeparator with the bug of ignoring the separator rule
FieldSeparatorDefault(has, rf) == "\n"

\* templates.py:36-38
FieldSeparator(has, rf) ==
    IF has /\ rf.separator_rules # <<>>
    THEN rf.separator_rules[1].separator
    ELSE "\n"

\* ValueText with the bug of casing the value like its label
ValueTextCased(v, has, rf) ==
    IF has /\ rf.casing_rules # <<>> THEN CasingApply(rf.casing_rules[1], v) ELSE v

\* a supplied value as the f-strings of PromptTemplate.format insert it
\* (templates.py:58-81, 104, 122): the text itself, no rule is applied to it
ValueText(v, has, rf) == v

\* templates.py:43-81, the blocks of the examples that are Example objects
RECURSIVE FormattedExamples(_, _, _, _)
FormattedExamples(examples, i, has, rf) ==
    IF i > Len(examples) THEN <<>>
    ELSE (IF examples[i].kind = "Example"
          THEN << CasedLabel("Example", has, rf) \o " " \o ItemNumber(i, has, rf)
                  \o FieldSeparator(has, rf)
                  \o CasedLabel("Input", has, rf) \o ": "
                  \o ValueText(examples[i].input, has, rf)
                  \o FieldSeparator(has, rf)
                  \o CasedLabel("Output", has, rf) \o ": "
                  \o ValueText(examples[i].output, has, rf) >>
          ELSE <<>>)
         \o FormattedExamples(examples, i + 1, has, rf)

\* templates.py:91-106: an option is appended only inside the hasattr test
RECURSIVE FormattedOptions(_, _, _, _)
FormattedOptions(options, i, has, rf) ==
    IF i > Len(options) THEN <<>>
    ELSE (IF has
          THEN << ItemNumber(i, has, rf) \o FieldSeparator(has, rf)
                  \o ValueText(options[i].v, has, rf) >>
          ELSE <<>>)
         \o FormattedOptions(options, i + 1, has, rf)

\* templates.py:109-114
OptionsSeparator(has, rf) ==
    IF has /\ rf.separator_rules # <<>> THEN " -- " ELSE "\n"

\* templates.py:28-123, the sections of the fields of t from position k on
RECURSIVE FormattedSections(_, _, _, _, _)
FormattedSections(t, fv, k, has, rf) ==
    IF k > Len(t.fields) THEN <<>>
    ELSE LET field == t.fields[k]
             head == CasedLabel(field, has, rf) \o FieldSeparator(has, rf)
             section ==
                IF field \notin DOMAIN fv THEN <<>>
                ELSE IF field = "Examples" /\ fv[field].kind = "list"
                THEN LET ex == FormattedExamples(fv[field].v, 1, has, rf)
                     IN IF ex # <<>> THEN << head \o StrJoin("\n\n", ex) >> ELSE <<>>
                ELSE IF field = "Options" /\ fv[field].kind = "list"
                THEN << head \o StrJoin(OptionsSeparator(has, rf),
                                        FormattedOptions(fv[field].v, 1, has, rf)) >>
                ELSE << head \o ValueText(fv[field].v, has, rf) >>
         IN section \o FormattedSections(t, fv, k + 1, has, rf)

\* TemplateFormat with the bug of a single line break between the sections
TemplateFormatSingleBreak(t, fv, has, rf) ==
    IF MissingFields(t, fv) # <<>>
    THEN [ok |-> FALSE, missing |-> MissingFields(t, fv), text |-> ""]
    ELSE [ok |-> TRUE, missing |-> <<>>,
          text |-> StrJoin("\n", FormattedSections(t, fv, 1, has, rf))]

\* PromptTemplate.format: the ValueError with the missing fields, or the text
TemplateFormat(t, fv, has, rf) ==
    IF MissingFields(t, fv) # <<>>
    THEN [ok |-> FALSE, missing |-> MissingFields(t, fv), text |-> ""]
    ELSE [ok |-> TRUE, missing |-> <<>>,
          text |-> StrJoin("\n\n", FormattedSections(t, fv, 1, has, rf))]

\* one step of the loop over the sections in extract_fields
\* (templates.py:132-167): the first field whose "<field>:" prefix the
\* stripped section starts with takes the section
RECURSIVE ExtractExamples(_)
ExtractExamples(example_sections) ==
    IF example_sections = <<>> THEN <<>>
    ELSE LET es == Head(example_sections)
         IN (IF Contains(es, "Input:") /\ Contains(es, "Output:")
             THEN << Example(StrStrip(StrReplace(StrSplit(es, "Output:")[1], "Input:", "")),
                             StrStrip(StrSplit(es, "Output:")[2])) >>
             ELSE <<>>)
            \o ExtractExamples(Tail(example_sections))

RECURSIVE ExtractOptions(_)
ExtractOptions(lines) ==
    IF lines = <<>> THEN <<>>
    ELSE LET line == Head(lines)
         IN (IF StrStrip(line) # "" /\ Contains(line, ". ")
             THEN << Str(StrStrip(StrSplitOnce(line, ". ")[2])) >>
             ELSE <<>>)
            \o ExtractOptions(Tail(lines))

RECURSIVE ExtractSection(_, _, _, _)
ExtractSection(t, section, k, fv) ==
    IF k > Len(t.fields) THEN fv
    ELSE LET field == t.fields[k]
             prefix == field \o ":"
             value == StrStrip(SubSeq(section, Len(prefix) + 1, Len(section)))
         IN IF ~StartsWith(section, prefix)
            THEN ExtractSection(t, section, k + 1, fv)
            ELSE IF field = "Examples"
            THEN LET examples == ExtractExamples(StrSplit(value, "\n\n"))
                 IN IF examples # <<>> THEN (field :> List(examples)) @@ fv ELSE fv
            ELSE IF field = "Options"
            THEN LET options == ExtractOptions(StrSplit(value, "\n"))
                 IN IF options # <<>> THEN (field :> List(options)) @@ fv ELSE fv
            ELSE (field :> Str(value)) @@ fv

RECURSIVE ExtractSections(_, _, _)
ExtractSections(t, sections, fv) ==
    IF sections = <<>> THEN fv
    ELSE ExtractSections(t, Tail(sections),
                         ExtractSection(t, StrStrip(Head(sections)), 1, fv))

\* the empty dict
EmptyFields == [f \in {} |-> Str("")]

\* PromptTemplate.extract_fields
ExtractFields(t, text) == ExtractSections(t, StrSplit(text, t.separator), EmptyFields)

(***************************************************************************)
(* reformatter.py: PromptReformatter.                                      *)
(***************************************************************************)
Axes == {"separator", "casing", "item_formatting", "enumeration"}

\* PromptReformatter.__post_init__: an empty list is replaced by the default
\* catalog, no template by the registry's "general"
PostInit(separator_rules, casing_rules, item_formatting_rules, enumeration_rules) ==
    [separator_rules |-> IF separator_rules = <<>> THEN GetDefaultRules("separator")
                         ELSE separator_rules,
     casing_rules |-> IF casing_rules = <<>> THEN GetDefaultRules("casing")
                      ELSE casing_rules,
     item_formatting_rules |-> IF item_formatting_rules = <<>>
                               THEN GetDefaultRules("item_formatting")
                               ELSE item_formatting_rules,
     enumeration_rules |-> IF enumeration_rules = <<>>
                           THEN GetDefaultRules("enumeration")
                           ELSE enumeration_rules,
     template |-> "general"]

\* PromptReformatter()
NewReformatter == PostInit(<<>>, <<>>, <<>>, <<>>)

\* the rule list of an axis
RulesOf(rf, axis) ==
    IF axis = "separator" THEN rf.separator_rules
    ELSE IF axis = "casing" THEN rf.casing_rules
    ELSE IF axis = "item_formatting" THEN rf.item_formatting_rules
    ELSE rf.enumeration_rules

\* rf with the list of one axis replaced
WithRules(rf, axis, rules) ==
    IF axis = "separator" THEN [rf EXCEPT !.separator_rules = rules]
    ELSE IF axis = "casing" THEN [rf EXCEPT !.casing_rules = rules]
    ELSE IF axis = "item_formatting" THEN [rf EXCEPT !.item_formatting_rules = rules]
    ELSE [rf EXCEPT !.enumeration_rules = rules]

\* InsertFront with the bug of appending the rule
InsertBack(rules, rule) == rules \o << rule >>

\* list.insert(0, rule)
InsertFront(rules, rule) == << rule >> \o rules

\* SummaryEntry with the bug of reporting the last rule of the list
SummaryEntryLast(rules) == IF rules # <<>> THEN rules[Len(rules)].name ELSE "None"

\* the name reported for one axis by get_formatting_summary
SummaryEntry(rules) == IF rules # <<>> THEN rules[1].name ELSE "None"

\* PromptReformatter.get_formatting_summary
GetFormattingSummary(rf) ==
    [axis \in Axes |-> SummaryEntry(RulesOf(rf, axis))]

\* AddRuleTo with the bug of treating an unknown axis as the last known one
AddRuleToLenient(rf, rule_type, rule) ==
    IF rule_type = "separator"
    THEN [raised |-> FALSE,
          rf |-> [rf EXCEPT !.separator_rules = << rule >> \o @]]
    ELSE IF rule_type = "casing"
    THEN [raised |-> FALSE,
          rf |-> [rf EXCEPT !.casing_rules = << rule >> \o @]]
    ELSE IF rule_type = "item_formatting"
    THEN [raised |-> FALSE,
          rf |-> [rf EXCEPT !.item_formatting_rules = << rule >> \o @]]
    ELSE [raised |-> FALSE,
          rf |-> [rf EXCEPT !.enumeration_rules = << rule >> \o @]]

\* PromptReformatter.add_rule on a reformatter record: the record after the
\* call and whether ValueError was raised
AddRuleTo(rf, rule_type, rule) ==
    IF rule_type = "separator"
    THEN [raised |-> FALSE,
          rf |-> [rf EXCEPT !.separator_rules = InsertFront(@, rule)]]
    ELSE IF rule_type = "casing"
    THEN [raised |-> FALSE,
          rf |-> [rf EXCEPT !.casing_rules = InsertFront(@, rule)]]
    ELSE IF rule_type = "item_formatting"
    THEN [raised |-> FALSE,
          rf |-> [rf EXCEPT !.item_formatting_rules = InsertFront(@, rule)]]
    ELSE IF rule_type = "enumeration"
    THEN [raised |-> FALSE,
          rf |-> [rf EXCEPT !.enumeration_rules = InsertFront(@, rule)]]
    ELSE [raised |-> TRUE, rf |-> rf]

\* SetTemplateOf with the bug of falling back to "general" for an unknown name
SetTemplateOfLenient(rf, template_name) ==
    IF template_name \notin DOMAIN DEFAULT_TEMPLATES
    THEN [raised |-> FALSE, rf |-> [rf EXCEPT !.template = "general"]]
    ELSE [raised |-> FALSE, rf |-> [rf EXCEPT !.template = template_name]]

\* PromptReformatter.set_template on a reformatter record
SetTemplateOf(rf, template_name) ==
    IF template_name \notin DOMAIN DEFAULT_TEMPLATES
    THEN [raised |-> TRUE, rf |-> rf]
    ELSE [raised |-> FALSE, rf |-> [rf EXCEPT !.template = template_name]]

(***************************************************************************)
(* The reformatter attribute that PromptReformatter.format sets on the     *)
(* template object (reformatter.py:89).  The templates are the objects of  *)
(* the registry, shared by every reformatter; the attribute is absent      *)
(* ("none"), or refers to one of the caller's reformatters ("ref"), or to  *)
(* a reformatter that only the template still refers to ("obj").           *)
(***************************************************************************)
NoBinding == [kind |-> "none", id |-> 0, obj |-> NewReformatter]
RefBinding(r) == [kind |-> "ref", id |-> r, obj |-> NewReformatter]
ObjBinding(rf) == [kind |-> "obj", id |-> 0, obj |-> rf]

\* hasattr(self, "reformatter")
HasReformatter(b) == b.kind # "none"
\* self.reformatter
BoundReformatter(b, heap) == IF b.kind = "ref" THEN heap[b.id] ELSE b.obj

\* the two kinds of input of PromptReformatter.format
Structured(fv) == [raw |-> FALSE, text |-> "", fv |-> fv]
Raw(text) == [raw |-> TRUE, text |-> text, fv |-> EmptyFields]

NoSummary == [axis \in Axes |-> ""]

\* reformatter.py:83-84, the field values a raw text is formatted from
RawFieldValues(t, text) ==
    LET extracted == ExtractFields(t, text)
    IN IF DOMAIN extracted = {} /\ t.required_fields # <<>>
       THEN (t.required_fields[1] :> Str(text))
       ELSE extracted

\* reformatter.py:73-97, what format returns or raises, from its two
\* renderings: `original` raises before the template is bound, `formatted`
\* after it
FormatOutcome(original, formatted, summary, bnd, rebound) ==
    IF ~original.ok
    THEN [raised |-> TRUE, missing |-> original.missing, original_prompt |-> "",
          formatted_prompt |-> "", formatting_summary |-> NoSummary, bound |-> bnd]
    ELSE IF ~formatted.ok
    THEN [raised |-> TRUE, missing |-> formatted.missing, original_prompt |-> "",
          formatted_prompt |-> "", formatting_summary |-> NoSummary,
          bound |-> rebound]
    ELSE [raised |-> FALSE, missing |-> <<>>, original_prompt |-> original.text,
          formatted_prompt |-> formatted.text,
          formatting_summary |-> summary, bound |-> rebound]

\* PromptReformatter.format of the reformatter rf, which `self` refers to,
\* with the template attributes bnd and the caller's reformatters heap: the
\* returned triple or the ValueError raised, and the template attributes
\* after the call
ReformatterFormat(rf, self, input, bnd, heap) ==
    FormatOutcome(
        IF input.raw
        THEN [ok |-> TRUE, missing |-> <<>>, text |-> input.text]
        ELSE TemplateFormat(DEFAULT_TEMPLATES[rf.template], input.fv,
                            HasReformatter(bnd[rf.template]),
                            BoundReformatter(bnd[rf.template], heap)),
        TemplateFormat(DEFAULT_TEMPLATES[rf.template],
                       IF input.raw
                       THEN RawFieldValues(DEFAULT_TEMPLATES[rf.template], input.text)
                       ELSE input.fv,
                       TRUE, rf),
        GetFormattingSummary(rf), bnd, [bnd EXCEPT ![rf.template] = self])

(***************************************************************************)
(* The caller's inputs.                                                    *)
(***************************************************************************)
FvGeneral == ("Task" :> Str("Add two numbers")) @@ ("Input" :> Str("2+2"))
FvExamples ==
    ("Task" :> Str("Solve")) @@ ("Input" :> Str("3*4"))
    @@ ("Examples" :> List(<< Example("2+3", "5"), Example("4*2", "8") >>))
FvChoice ==
    ("Task" :> Str("Pick")) @@ ("Question" :> Str("Capital?"))
    @@ ("Options" :> List(<< Str("Paris"), Str("Rome") >>))
FvTaskOnly == ("Task" :> Str("x"))

FieldInputs == { FvGeneral, FvChoice, FvTaskOnly }
RawInputs == { "Write a story", "Task: Add\n\nInput: 2+2" }
FormatInputs == { Structured(fv) : fv \in FieldInputs } \cup { Raw(x) : x \in RawInputs }

\* the rules a caller adds, and the axis names it passes to add_rule
CallerRules ==
    [axis \in Axes \cup {"ordering"} |->
        IF axis = "separator" THEN SeparatorRule("Arrow", " -> ")
        ELSE IF axis = "casing" THEN CasingRule("Upper")
        ELSE IF axis = "item_formatting" THEN ItemFormattingRule("Brackets", "[{}]")
        ELSE IF axis = "enumeration" THEN EnumerationRule("Roman", "roman_upper")
        ELSE CasingRule("Lower")]
RuleTypes == DOMAIN CallerRules
TemplateArgs == { "general", "multiple_choice", "chat" }

(***************************************************************************)
(* improver.py: scores, candidates and the pure parts of PromptImprover.   *)
(*                                                                         *)
(* A float is modelled in hundredths: Float(85) is 0.85.  NegInf is        *)
(* float("-inf").                                                          *)
(***************************************************************************)
Float(v) == [inf |-> 0, v |-> v]
\* NegInf with the bug of a best score that starts at 0.0
BestScoreZero == Float(0)

\* float("-inf")
NegInf == [inf |-> -1, v |-> 0]
\* a > b on floats
FloatGT(a, b) == a.inf > b.inf \/ (a.inf = b.inf /\ a.v > b.v)
FloatMin(a, b) == IF FloatGT(a, b) THEN b ELSE a
FloatMax(a, b) == IF FloatGT(b, a) THEN b ELSE a

IsDigit(c) == IndexFrom(Digits, c, 1) # 0

RECURSIVE AllDigits(_)
AllDigits(s) == s = "" \/ (IsDigit(CharAt(s, 1)) /\ AllDigits(Tail(s)))

RECURSIVE StrToNat(_)
StrToNat(s) ==
    IF s = "" THEN 0
    ELSE 10 * StrToNat(SubSeq(s, 1, Len(s) - 1))
         + (IndexFrom(Digits, CharAt(s, Len(s)), 1) - 1)

\* float(text) for a decimal literal with an optional sign and at most two
\* decimals; any other text raises ValueError (ok = FALSE)
ParseFloat(text) ==
    LET neg == StartsWith(text, "-")
        body == IF neg \/ StartsWith(text, "+") THEN Tail(text) ELSE text
        parts == StrSplitOnce(body, ".")
        whole == parts[1]
        frac == IF Len(parts) = 2 THEN parts[2] ELSE ""
        wellFormed == /\ AllDigits(whole) /\ AllDigits(frac)
                      /\ whole \o frac # "" /\ Len(frac) <= 2
        frac2 == IF Len(frac) = 0 THEN "00" ELSE IF Len(frac) = 1 THEN frac \o "0" ELSE frac
        magnitude == 100 * StrToNat(whole) + StrToNat(frac2)
    IN IF wellFormed
       THEN [ok |-> TRUE, value |-> Float(IF neg THEN 0 - magnitude ELSE magnitude)]
       ELSE [ok |-> FALSE, value |-> Float(0)]

\* JudgeScore with the bug of a missing clamp
JudgeScoreUnclamped(content) ==
    LET parsed == ParseFloat(StrStrip(content))
    IN IF parsed.ok THEN parsed.value ELSE Float(0)

\* improver.py:116-121, the score evaluate_format returns for the judge's text
JudgeScore(content) ==
    LET parsed == ParseFloat(StrStrip(content))
    IN IF parsed.ok
       THEN FloatMax(Float(0), FloatMin(Float(100), parsed.value))
       ELSE Float(0)

\* improver.py:119-120, whether evaluate_format logs "Judge provided invalid
\* score format"
JudgeLogsError(content) == ~ParseFloat(StrStrip(content)).ok

\* Optional[float]
NoScore == [set |-> FALSE, value |-> Float(0)]
SomeScore(x) == [set |-> TRUE, value |-> x]

\* FormatCandidate
FormatCandidate(sep, cas, item, enum) ==
    [separator_rule |-> sep, casing_rule |-> cas, item_formatting_rule |-> item,
     enumeration_rule |-> enum, score |-> NoScore]

\* FormatCandidate.to_dict, and None for no candidate
CandidateToDict(c) ==
    [is_none |-> FALSE, separator_rule |-> c.separator_rule.name,
     casing_rule |-> c.casing_rule.name,
     item_formatting_rule |-> c.item_formatting_rule.name,
     enumeration_rule |-> c.enumeration_rule.name, score |-> c.score]
NoneFormat ==
    [is_none |-> TRUE, separator_rule |-> "", casing_rule |-> "",
     item_formatting_rule |-> "", enumeration_rule |-> "", score |-> NoScore]

\* the reformatter that format_prompt constructs for a candidate
\* (improver.py:134-139): no template is passed, __post_init__ picks "general"
CandidateReformatter(c) ==
    PostInit(<< c.separator_rule >>, << c.casing_rule >>,
             << c.item_formatting_rule >>, << c.enumeration_rule >>)

\* PromptImprover.format_prompt: PromptReformatter.format of that reformatter
FormatPrompt(fv, c, bnd, heap) ==
    ReformatterFormat(CandidateReformatter(c), ObjBinding(CandidateReformatter(c)),
                      Structured(fv), bnd, heap)

\* improver.py:149-155, the template improve selects and the caller's dict
\* after it
ImproveTemplate(fv) ==
    IF "Question" \in DOMAIN fv /\ "Options" \in DOMAIN fv
    THEN "multiple_choice" ELSE "general"
ImproveFieldValues(fv) ==
    IF "Question" \in DOMAIN fv /\ "Options" \in DOMAIN fv /\ "Input" \notin DOMAIN fv
    THEN fv @@ ("Input" :> Str(""))
    ELSE fv

\* the candidates the sampler draws in the model: positions in the default
\* catalogs (random.choice draws any position)
SeparatorChoices == {2}
CasingChoices == {1, 4}
ItemFormattingChoices == {2}
EnumerationChoices == {2}

\* PromptImprover.sample_candidate
SampleCandidates ==
    { FormatCandidate(GetDefaultRules("separator")[a], GetDefaultRules("casing")[b],
                      GetDefaultRules("item_formatting")[c],
                      GetDefaultRules("enumeration")[d]) :
        a \in SeparatorChoices, b \in CasingChoices,
        c \in ItemFormattingChoices, d \in EnumerationChoices }

\* what the completion collaborator and the judge may answer
BaselineResponses == { "2+2 is 4" }
Responses == { "4", "four " }
JudgeOutputs == { "0.5", "1.5", "-3", "abc" }

ImproveInputs == { FvGeneral, FvChoice, FvTaskOnly }

(***************************************************************************)
(* The caller's objects and the initial state.                             *)
(***************************************************************************)
RefIds == {1, 2}


NoOp ==
    [op |-> "none", r |-> 0, arg |-> "", rule |-> CasingRule(""),
     input |-> Raw(""), raised |-> FALSE, missing |-> <<>>,
     original_prompt |-> "", formatted_prompt |-> "",
     formatting_summary |-> NoSummary]

NoResult ==
    [original_prompt |-> "", improved_prompt |-> "", original_response |-> "",
     improved_response |-> "", improvement_score |-> NegInf,
     best_format |-> NoneFormat, num_candidates_evaluated |-> 0,
     all_scores |-> <<>>]

\* what the evaluate_format call of the candidate at hand received from the
\* judge and whether it logged the error; empty outside a candidate's cycle
NoJudge == [content |-> "", logged |-> FALSE, args |-> << "", "", "" >>]

\* the locals of improve; best_candidate is a reference to an element of
\* all_candidates (its position), 0 for None; best_sent is what
\* formatted_prompt and model_response held when best_candidate was assigned
NoRun ==
    [passed |-> EmptyFields, field_values |-> EmptyFields,
     num_candidates |-> 0, num_iterations |-> 0,
     original_prompt |-> "", original_response |-> "",
     best_candidate |-> 0, best_score |-> NegInf, best_response |-> "",
     all_candidates |-> <<>>, iteration |-> 0, done_in_iteration |-> 0,
     candidate |-> FormatCandidate(CasingRule(""), CasingRule(""), CasingRule(""),
                                   CasingRule("")),
     formatted_prompt |-> "", model_response |-> "", score |-> Float(0),
     calls |-> <<>>, judge |-> NoJudge, result |-> NoResult,
     best_sent |-> [prompt |-> "", response |-> ""]]

\* no rule has been applied directly
NoApp == [kind |-> "none", rule |-> "", prompt |-> "", text |-> "", n |-> 0]

\* nothing has been rendered and no command has run
NoRen ==
    [kind |-> "none", template |-> "general", field_values |-> EmptyFields,
     has |-> FALSE, rf |-> NewReformatter, model |-> "", raised |-> FALSE,
     original_prompt |-> "", text |-> "", example_numbers |-> <<>>,
     formatted_numbers |-> <<>>]

Init ==
    /\ catalog = DefaultCatalog
    /\ pc = "idle"
    /\ run = NoRun
    /\ refs = [r \in RefIds |-> NewReformatter]
    /\ bound = [n \in TemplateNames |-> NoBinding]
    /\ lastOp = NoOp
    /\ ncalls = 0
    /\ app = NoApp
    /\ ren = NoRen

\* reformatter.format(input_data)
Format(r, input) ==
    /\ pc = "idle"
    /\ ncalls < MaxCalls
    /\ LET res == ReformatterFormat(refs[r], RefBinding(r), input, bound, refs)
       IN /\ bound' = res.bound
          /\ lastOp' = [NoOp EXCEPT !.op = "format", !.r = r, !.input = input,
                                    !.arg = refs[r].template,
                                    !.raised = res.raised, !.missing = res.missing,
                                    !.original_prompt = res.original_prompt,
                                    !.formatted_prompt = res.formatted_prompt,
                                    !.formatting_summary = res.formatting_summary]
    /\ ncalls' = ncalls + 1
    /\ UNCHANGED << refs, improveVars, ruleVars >>

\* ListOwners with the bug of one module-level list per axis that every
\* default-constructed reformatter and every get_default_rules call shares
ListOwnersShared(r, axis) == RefIds \cup {0}

\* the holders of the list object that is reformatter r's list of the axis
\* (0 stands for the classmethod's catalog): __post_init__ stores the list
\* that a get_default_rules call has just built from a list literal, so no
\* other reformatter and no later call refers to it
ListOwners(r, axis) == {r}

\* reformatter.add_rule(rule_type, rule): insert(0, rule) acts on the list
\* object, and so on every holder of it
AddRule(r, rule_type, rule) ==
    /\ pc = "idle"
    /\ ncalls < MaxCalls
    /\ LET res == AddRuleTo(refs[r], rule_type, rule)
           owners == IF res.raised THEN {} ELSE ListOwners(r, rule_type)
       IN /\ refs' = [q \in RefIds |->
                        IF q = r THEN res.rf
                        ELSE IF q \in owners
                        THEN WithRules(refs[q], rule_type, RulesOf(res.rf, rule_type))
                        ELSE refs[q]]
          /\ catalog' = IF 0 \in owners
                        THEN [catalog EXCEPT ![rule_type] = RulesOf(res.rf, rule_type)]
                        ELSE catalog
          /\ lastOp' = [NoOp EXCEPT !.op = "add_rule", !.r = r, !.arg = rule_type,
                                    !.rule = rule, !.raised = res.raised]
    /\ ncalls' = ncalls + 1
    /\ UNCHANGED << bound, improveVars, app, ren >>

\* reformatter.set_template(template_name)
SetTemplate(r, template_name) ==
    /\ pc = "idle"
    /\ ncalls < MaxCalls
    /\ LET res == SetTemplateOf(refs[r], template_name)
       IN /\ refs' = [refs EXCEPT ![r] = res.rf]
          /\ lastOp' = [NoOp EXCEPT !.op = "set_template", !.r = r,
                                    !.arg = template_name, !.raised = res.raised]
    /\ ncalls' = ncalls + 1
    /\ UNCHANGED << bound, improveVars, ruleVars >>

\* the caller empties a rule list of the dataclass (reformatter.<axis>_rules.clear())
ClearRules(r, axis) ==
    /\ pc = "idle"
    /\ ncalls < MaxCalls
    /\ refs' = [refs EXCEPT ![r] =
                  IF axis = "separator" THEN [@ EXCEPT !.separator_rules = <<>>]
                  ELSE IF axis = "casing" THEN [@ EXCEPT !.casing_rules = <<>>]
                  ELSE IF axis = "item_formatting"
                  THEN [@ EXCEPT !.item_formatting_rules = <<>>]
                  ELSE [@ EXCEPT !.enumeration_rules = <<>>]]
    /\ lastOp' = [NoOp EXCEPT !.op = "clear", !.r = r, !.arg = axis]
    /\ ncalls' = ncalls + 1
    /\ UNCHANGED << bound, improveVars, ruleVars >>

(***************************************************************************)
(* PromptImprover.improve, one action per step of the search loop.         *)
(***************************************************************************)
\* improver.py:149-157: the caller calls improve(field_values, num_candidates,
\* num_iterations); the template is chosen, the caller's dict gets its Input
\* key, and the baseline prompt is rendered by a new PromptReformatter()
ImproveBegin(fv, num_candidates, num_iterations) ==
    /\ pc = "idle"
    /\ num_candidates * num_iterations <= MaxCandidates
    /\ LET reformatter == SetTemplateOf(NewReformatter, ImproveTemplate(fv)).rf
           field_values == ImproveFieldValues(fv)
           res == ReformatterFormat(reformatter, ObjBinding(reformatter),
                                    Structured(field_values), bound, refs)
       IN /\ bound' = res.bound
          /\ run' = [NoRun EXCEPT !.passed = fv, !.field_values = field_values,
                                  !.num_candidates = num_candidates,
                                  !.num_iterations = num_iterations,
                                  !.original_prompt = res.original_prompt]
          /\ pc' = IF res.raised THEN "raised" ELSE "baseline"
    /\ UNCHANGED << refs, lastOp, ncalls, ruleVars >>

\* Called with the bug of a request that is sent twice
CalledTwice(r, model) == [r EXCEPT !.calls = @ \o << model, model >>]

\* self.client.chat.completions.create(model=...) is called (improver.py:70
\* with self.target_model, improver.py:112 with self.judge_model): the calls
\* of the run so far, in order
Called(r, model) == [r EXCEPT !.calls = Append(@, model)]

\* LoopPc with the bug of an inner loop that runs once more
LoopPcOneMore(r) ==
    IF r.num_candidates > 0 /\ r.iteration < r.num_iterations
    THEN "sample"
    ELSE IF r.num_candidates > 0 /\ r.iteration = r.num_iterations
    THEN "sample" ELSE "finalize"

\* LoopPc with the bug of leaving the loop before the last iteration
LoopPcOneLess(r) ==
    IF r.num_candidates > 0 /\ r.iteration + 1 < r.num_iterations
    THEN "sample" ELSE "finalize"

\* the position of the search loop after the locals are initialised or a
\* candidate is recorded: the nested range() loops of improver.py:165-168
LoopPc(r) ==
    IF r.num_candidates > 0 /\ r.iteration < r.num_iterations
    THEN "sample" ELSE "finalize"

\* improver.py:158-163: the baseline response, then the locals of the search
BaselineEval(response) ==
    /\ pc = "baseline"
    /\ LET r == [Called(run, "target_model") EXCEPT
                            !.original_response = StrStrip(response),
                            !.best_candidate = 0, !.best_score = NegInf,
                            !.best_response = StrStrip(response),
                            !.all_candidates = <<>>]
       IN run' = r /\ pc' = LoopPc(r)
    /\ UNCHANGED << refs, bound, lastOp, ncalls, ruleVars >>

\* improver.py:169
Sample(candidate) ==
    /\ pc = "sample"
    /\ run' = [run EXCEPT !.candidate = candidate]
    /\ pc' = "render"
    /\ UNCHANGED << refs, bound, lastOp, ncalls, ruleVars >>

\* improver.py:170
Render ==
    /\ pc = "render"
    /\ LET res == FormatPrompt(run.field_values, run.candidate, bound, refs)
       IN /\ bound' = res.bound
          /\ run' = [run EXCEPT !.formatted_prompt = res.formatted_prompt]
          /\ pc' = IF res.raised THEN "raised" ELSE "complete"
    /\ UNCHANGED << refs, lastOp, ncalls, ruleVars >>

\* improver.py:171
CollaboratorCall(response) ==
    /\ pc = "complete"
    /\ run' = [Called(run, "target_model") EXCEPT
                  !.model_response = StrStrip(response)]
    /\ pc' = "judge"
    /\ UNCHANGED << refs, bound, lastOp, ncalls, ruleVars >>

\* JudgeArgs with the bug of comparing with the best response so far and
\* showing the judge the candidate's prompt
JudgeArgsBestSoFar(r) == << r.formatted_prompt, r.best_response, r.model_response >>

\* the arguments prompt, original_response, formatted_response of the
\* evaluate_format call (improver.py:172-174), which the evaluation prompt
\* shows the judge (improver.py:81-90)
JudgeArgs(r) == << r.original_prompt, r.original_response, r.model_response >>

\* improver.py:172-174
JudgeCall(content) ==
    /\ pc = "judge"
    /\ run' = [Called(run, "judge_model") EXCEPT
                  !.score = JudgeScore(content),
                  !.judge = [content |-> content, logged |-> JudgeLogsError(content),
                             args |-> JudgeArgs(run)]]
    /\ pc' = "record"
    /\ UNCHANGED << refs, bound, lastOp, ncalls, ruleVars >>

\* Improves with the bug of >= for >
ImprovesOrEqual(score, best_score) == ~FloatGT(best_score, score)

\* improver.py:178, whether a score replaces the best score
Improves(score, best_score) == FloatGT(score, best_score)

\* improver.py:175-182 and the loop counters
Record ==
    /\ pc = "record"
    /\ LET scored == [run.candidate EXCEPT !.score = SomeScore(run.score)]
           appended == Append(run.all_candidates, scored)
           better == Improves(run.score, run.best_score)
           lastOfIteration == run.done_in_iteration + 1 = run.num_candidates
           r == [run EXCEPT
                   !.all_candidates = appended,
                   !.judge = NoJudge,
                   !.best_score = IF better THEN run.score ELSE @,
                   !.best_candidate = IF better THEN Len(appended) ELSE @,
                   !.best_response = IF better THEN run.model_response ELSE @,
                   !.best_sent = IF better
                                 THEN [prompt |-> run.formatted_prompt,
                                       response |-> run.model_response]
                                 ELSE @,
                   !.iteration = IF lastOfIteration THEN @ + 1 ELSE @,
                   !.done_in_iteration = IF lastOfIteration THEN 0 ELSE @ + 1]
       IN run' = r /\ pc' = LoopPc(r)
    /\ UNCHANGED << refs, bound, lastOp, ncalls, ruleVars >>

\* BestFormattedPrompt with the bug of returning the prompt rendered last
BestFormattedPromptLast(r, bnd, heap) ==
    IF r.best_candidate # 0
    THEN [FormatPrompt(r.field_values, r.all_candidates[r.best_candidate], bnd, heap)
            EXCEPT !.formatted_prompt = r.formatted_prompt]
    ELSE [raised |-> FALSE, missing |-> <<>>, original_prompt |-> r.original_prompt,
          formatted_prompt |-> r.original_prompt, formatting_summary |-> NoSummary,
          bound |-> bnd]

\* improver.py:184-188, best_formatted_prompt: the best candidate is rendered
\* again by format_prompt, or the original prompt is taken when there is none
BestFormattedPrompt(r, bnd, heap) ==
    IF r.best_candidate # 0
    THEN FormatPrompt(r.field_values, r.all_candidates[r.best_candidate], bnd, heap)
    ELSE [raised |-> FALSE, missing |-> <<>>, original_prompt |-> r.original_prompt,
          formatted_prompt |-> r.original_prompt, formatting_summary |-> NoSummary,
          bound |-> bnd]

\* improver.py:184-199
Finalize ==
    /\ pc = "finalize"
    /\ LET best == run.best_candidate
           res == BestFormattedPrompt(run, bound, refs)
       IN /\ bound' = res.bound
          /\ pc' = IF res.raised THEN "raised" ELSE "done"
          /\ run' = [run EXCEPT !.result =
                       [original_prompt |-> run.original_prompt,
                        improved_prompt |-> res.formatted_prompt,
                        original_response |-> run.original_response,
                        improved_response |-> run.best_response,
                        improvement_score |-> run.best_score,
                        best_format |-> IF best # 0
                                        THEN CandidateToDict(run.all_candidates[best])
                                        ELSE NoneFormat,
                        num_candidates_evaluated |-> Len(run.all_candidates),
                        all_scores |-> [i \in 1..Len(run.all_candidates) |->
                                          run.all_candidates[i].score]]]
    /\ UNCHANGED << refs, lastOp, ncalls, ruleVars >>

\* a completion or judge call raises (improver.py:70 and 112): nothing in
\* improve catches it
CollaboratorError ==
    /\ pc \in {"baseline", "complete", "judge"}
    /\ run' = Called(run, IF pc = "judge" THEN "judge_model" ELSE "target_model")
    /\ pc' = "raised"
    /\ UNCHANGED << refs, bound, lastOp, ncalls, ruleVars >>

\* improve has returned or raised; the caller goes on
Return ==
    /\ pc \in {"done", "raised"}
    /\ pc' = "idle"
    /\ run' = NoRun
    /\ UNCHANGED << refs, bound, lastOp, ncalls, ruleVars >>

(***************************************************************************)
(* Direct calls of the rules' apply methods.                               *)
(***************************************************************************)
\* the texts a caller starts from: the index tokens str(i) that the template
\* hands to the enumeration rule (templates.py:46 and 93), field labels and
\* free text
IndexTokens == { IntToStr(i) : i \in 1..MaxIndex }
RuleTexts ==
    IndexTokens \cup { "Task", "INPUT", "hello world", "it's 2nd", "mIxEd caSe",
                       "Add Two Numbers" }

\* the initial state of a caller that holds a text and applies rules to it
InitRules ==
    /\ catalog = DefaultCatalog
    /\ pc = "idle"
    /\ run = NoRun
    /\ refs = [r \in RefIds |-> NewReformatter]
    /\ bound = [n \in TemplateNames |-> NoBinding]
    /\ lastOp = NoOp
    /\ ncalls = 0
    /\ \E text \in RuleTexts : app = [NoApp EXCEPT !.text = text]
    /\ ren = NoRen

\* text = casing_rule.apply(text)
CasingRuleApply(rule) ==
    /\ app.n < MaxApplies
    /\ app' = [kind |-> "casing", rule |-> rule.name, prompt |-> app.text,
               text |-> CasingApply(rule, app.text), n |-> app.n + 1]
    /\ UNCHANGED << refs, bound, lastOp, ncalls, improveVars, catalog, ren >>

\* text = enumeration_rule.apply(text)
EnumerationRuleApply(rule) ==
    /\ app.n < MaxApplies
    /\ app' = [kind |-> "enumeration", rule |-> rule.name, prompt |-> app.text,
               text |-> EnumerationApply(rule, app.text), n |-> app.n + 1]
    /\ UNCHANGED << refs, bound, lastOp, ncalls, improveVars, catalog, ren >>

(***************************************************************************)
(* Renderings of a registry template under a rule selection, and the       *)
(* format subcommand of the CLI.                                           *)
(***************************************************************************)
\* values with digits and letters of both cases, two examples and a key that
\* no template declares
FvApples ==
    ("Task" :> Str("Count the Fruit")) @@ ("Input" :> Str("I have 2 apples"))
    @@ ("Examples" :> List(<< Example("i had 1 pear", "1"),
                              Example("2 figs and 10 kiwis", "12") >>))
    @@ ("Note" :> Str("ignore me"))
\* an Examples list that holds no example
FvNoExamples == FvGeneral @@ ("Examples" :> List(<<>>))
\* a multiple-choice input with one example
FvQuiz ==
    FvChoice @@ ("Examples" :> List(<< Example("Capital of Italy?", "Rome") >>))
\* a multiple-choice input with an option for every index up to MaxIndex
FvManyOptions ==
    ("Task" :> Str("Pick")) @@ ("Question" :> Str("Which 1?"))
    @@ ("Options" :> List([i \in 1..MaxIndex |-> Str("option " \o IntToStr(i))]))

RenderInputs ==
    { FvGeneral, FvApples, FvNoExamples, FvChoice, FvQuiz, FvManyOptions, FvTaskOnly }

\* the positions in the default lists that the rule selections are built from
RenderSeparatorChoices == {1, 2, 4, 5, 6}
RenderCasingChoices == {1, 2, 3, 4}
RenderItemFormattingChoices == {1, 2, 5}
RenderEnumerationChoices == {1, 2, 3, 4, 5}

\* a rule selection: a reformatter with one default rule on every axis
RuleSelections ==
    { PostInit(<< GetDefaultRules("separator")[a] >>, << GetDefaultRules("casing")[b] >>,
               << GetDefaultRules("item_formatting")[c] >>,
               << GetDefaultRules("enumeration")[d] >>) :
        a \in RenderSeparatorChoices, b \in RenderCasingChoices,
        c \in RenderItemFormattingChoices, d \in RenderEnumerationChoices }

\* the states before a rendering: a template, the field values, and either
\* no reformatter attribute on the template or one with a rule selection
InitRender ==
    /\ catalog = DefaultCatalog
    /\ pc = "idle"
    /\ run = NoRun
    /\ refs = [r \in RefIds |-> NewReformatter]
    /\ bound = [n \in TemplateNames |-> NoBinding]
    /\ lastOp = NoOp
    /\ ncalls = 0
    /\ app = NoApp
    /\ \E name \in TemplateNames, fv \in RenderInputs :
          \/ ren = [NoRen EXCEPT !.kind = "input", !.template = name,
                                 !.field_values = fv]
          \/ \E rf \in RuleSelections :
                ren = [NoRen EXCEPT !.kind = "input", !.template = name,
                                    !.field_values = fv, !.has = TRUE,
                                    !.rf = [rf EXCEPT !.template = name]]

\* `field in self.fields`
Declares(t, field) == \E k \in 1..Len(t.fields) : t.fields[k] = field

\* the values of formatted_number over the loop of a list field
\* (templates.py:43-57 for Examples, 91-102 for Options): none when the field
\* is absent or no list, or when the token is never computed
ListNumbers(fv, field, computed, has, rf) ==
    IF field \in DOMAIN fv /\ fv[field].kind = "list" /\ computed
    THEN [i \in 1..Len(fv[field].v) |-> ItemNumber(i, has, rf)]
    ELSE <<>>

\* template.format(field_values)
RenderTemplate ==
    /\ ren.kind = "input"
    /\ LET t == DEFAULT_TEMPLATES[ren.template]
           out == TemplateFormat(t, ren.field_values, ren.has, ren.rf)
       IN ren' = [ren EXCEPT
                    !.kind = "rendered", !.raised = ~out.ok, !.text = out.text,
                    !.example_numbers =
                        IF out.ok /\ Declares(t, "Examples")
                        THEN ListNumbers(ren.field_values, "Examples", TRUE,
                                         ren.has, ren.rf)
                        ELSE <<>>,
                    !.formatted_numbers =
                        IF out.ok /\ Declares(t, "Options")
                        THEN ListNumbers(ren.field_values, "Options", ren.has,
                                         ren.has, ren.rf)
                        ELSE <<>>]
    /\ UNCHANGED << refs, bound, lastOp, ncalls, improveVars, catalog, app >>

\* cli.py:137-145, the choices of --model of the format subcommand
ModelChoices ==
    { "general", "gpt-4o", "gpt-4o-mini", "llama-3.3-70b-versatile",
      "llama-3.1-8b-instant", "mixtral-8x7b-32768", "gemma2-9b-it" }
\* what a user may type after --model: a choice, or a name argparse rejects
ModelArgs == ModelChoices \cup { "llama-3.3-8b-instant", "gpt-5" }

\* models.py:125-133, the keys of rules_map
RulesMapKeys ==
    { "general", "gpt-4o", "gpt-4o-mini", "llama-3.3-70b-versatile",
      "llama-3.3-8b-instant", "mixtral-8x7b-32768", "gemma2-9b-it" }

\* models.py:10-119, the reformatter built from the rules of a key of rules_map
ModelReformatter(model) ==
    IF model = "llama-3.3-70b-versatile"
    THEN PostInit(<< SeparatorRule("Double Pipe", " || ") >>,
                  << CasingRule("No Change") >>,
                  << ItemFormattingRule("Parentheses", "({})") >>,
                  << EnumerationRule("Unicode Fractions", "unicode_fraction") >>)
    ELSE IF model = "llama-3.3-8b-instant"
    THEN PostInit(<< SeparatorRule("Newline Space", "\n ") >>,
                  << CasingRule("Upper") >>,
                  << ItemFormattingRule("Dot Suffix", "{}.") >>,
                  << EnumerationRule("Roman", "roman_upper") >>)
    ELSE IF model = "gemma2-9b-it"
    THEN PostInit(<< SeparatorRule("Newline", "\n ") >>,
                  << CasingRule("No Change") >>,
                  << ItemFormattingRule("Brackets", "[{}]") >>,
                  << EnumerationRule("Alpha Lower", "alpha_lower") >>)
    ELSE PostInit(GetDefaultRules("separator"), GetDefaultRules("casing"),
                  GetDefaultRules("item_formatting"), GetDefaultRules("enumeration"))

\* get_model_rules: the ValueError for a name that is no key of rules_map
GetModelRules(model) ==
    IF model \notin RulesMapKeys
    THEN [raised |-> TRUE, rf |-> NewReformatter]
    ELSE [raised |-> FALSE, rf |-> ModelReformatter(model)]

\* get_field_values (cli.py:77-106): a value for the fields of the template
\* only, and no Examples or Options entry for an empty list
GetFieldValues(t, typed) ==
    LET kept == { f \in DOMAIN typed :
                    /\ Declares(t, f)
                    /\ ~(f \in {"Examples", "Options"} /\ typed[f].kind = "list"
                         /\ typed[f].v = <<>>) }
    IN [f \in kept |-> typed[f]]

\* `reformat format -t <template> -m <model>` in a new process, the user
\* typing the field values: argparse exits for a model that is no choice;
\* the ValueError of get_model_rules is raised outside the try block, the
\* one of format is caught and reported.  No synonym rules file exists.
FormatCommand(model) ==
    /\ ren.kind = "input"
    /\ ~ren.has
    /\ LET rules == GetModelRules(model)
           rf == SetTemplateOf(rules.rf, ren.template).rf
           field_values == GetFieldValues(DEFAULT_TEMPLATES[ren.template],
                                          ren.field_values)
           res == ReformatterFormat(rf, ObjBinding(rf), Structured(field_values),
                                    bound, refs)
       IN ren' =
            IF model \notin ModelChoices
            THEN [ren EXCEPT !.kind = "cli", !.model = model, !.raised = TRUE,
                             !.text = "invalid choice"]
            ELSE IF rules.raised
            THEN [ren EXCEPT !.kind = "cli", !.model = model, !.raised = TRUE,
                             !.text = "Unknown model"]
            ELSE IF res.raised
            THEN [ren EXCEPT !.kind = "cli", !.model = model, !.raised = TRUE,
                             !.rf = rf, !.field_values = field_values,
                             !.text = "Error: Missing required fields"]
            ELSE [ren EXCEPT !.kind = "cli", !.model = model, !.rf = rf,
                             !.field_values = field_values,
                             !.original_prompt = res.original_prompt,
                             !.text = res.formatted_prompt]
    /\ UNCHANGED << refs, bound, lastOp, ncalls, improveVars, catalog, app >>

Next ==
    \/ \E r \in RefIds, input \in FormatInputs : Format(r, input)
    \/ \E r \in RefIds, rule_type \in RuleTypes : AddRule(r, rule_type, CallerRules[rule_type])
    \/ \E r \in RefIds, name \in TemplateArgs : SetTemplate(r, name)
    \/ \E r \in RefIds, axis \in Axes : ClearRules(r, axis)

Spec == Init /\ [][Next]_vars

\* a caller that runs improve
NextImprove ==
    \/ \E fv \in ImproveInputs, k \in 0..MaxCandidates, n \in 0..MaxCandidates :
          ImproveBegin(fv, k, n)
    \/ \E response \in BaselineResponses : BaselineEval(response)
    \/ \E candidate \in SampleCandidates : Sample(candidate)
    \/ Render
    \/ \E response \in Responses : CollaboratorCall(response)
    \/ \E content \in JudgeOutputs : JudgeCall(content)
    \/ Record
    \/ Finalize
    \/ CollaboratorError
    \/ Return

SpecImprove == Init /\ [][NextImprove]_vars

\* what the judge answers when the order of the steps is looked at: a
\* number and a text that is none
ReturningJudgeOutputs == { "0.5", "abc" }

\* the steps of a running improve call whose collaborators always return
ImproveStep ==
    \/ \E response \in BaselineResponses : BaselineEval(response)
    \/ \E candidate \in SampleCandidates : Sample(candidate)
    \/ Render
    \/ \E response \in Responses : CollaboratorCall(response)
    \/ \E content \in ReturningJudgeOutputs : JudgeCall(content)
    \/ Record
    \/ Finalize

\* a caller that runs improve with collaborators that always return
NextImproveLive ==
    \/ \E fv \in ImproveInputs, k \in 0..MaxCandidates, n \in 0..MaxCandidates :
          ImproveBegin(fv, k, n)
    \/ ImproveStep
    \/ Return

\* the positions inside a running improve call, and a step that leaves one
RunningPositions ==
    {"baseline", "sample", "render", "complete", "judge", "record", "finalize"}
ImproveAdvances ==
    /\ pc \in RunningPositions
    /\ pc' \in (RunningPositions \cup {"done", "raised"}) \ {pc}

\* improve is sequential code and its collaborators return: a call that is
\* inside improve goes on to its next position
SpecImproveLive == Init /\ [][NextImproveLive]_vars /\ WF_pc(ImproveAdvances)

\* a caller that applies default rules to a text
NextRules ==
    \/ \E i \in 1..Len(GetDefaultRules("casing")) :
          CasingRuleApply(GetDefaultRules("casing")[i])
    \/ \E i \in 1..Len(GetDefaultRules("enumeration")) :
          EnumerationRuleApply(GetDefaultRules("enumeration")[i])

SpecRules == InitRules /\ [][NextRules]_vars

\* a caller that renders a template, or a user who runs the format command
NextRender ==
    \/ RenderTemplate
    \/ \E model \in ModelArgs : FormatCommand(model)

SpecRender == InitRender /\ [][NextRender]_vars

(***************************************************************************)
(* Properties.                                                             *)
(***************************************************************************)
Range(seq) == { seq[i] : i \in 1..Len(seq) }

\* the field values the last format call rendered
LastFieldValues ==
    IF lastOp.input.raw
    THEN RawFieldValues(DEFAULT_TEMPLATES[lastOp.arg], lastOp.input.text)
    ELSE lastOp.input.fv

\* C1: a format call fails with the missing-field error exactly when a
\* required field of the template is no key of the field values; the error
\* then lists every absent required field and nothing is rendered, and
\* otherwise a rendering is returned.
C1_MissingFieldError ==
    lastOp.op = "format" =>
        LET required == Range(DEFAULT_TEMPLATES[lastOp.arg].required_fields)
            absent == { f \in required : f \notin DOMAIN LastFieldValues }
        IN /\ lastOp.raised <=> absent # {}
           /\ lastOp.raised =>
                /\ Range(lastOp.missing) = absent
                /\ Len(lastOp.missing) = Cardinality(absent)
                /\ lastOp.formatted_prompt = ""
           /\ ~lastOp.raised => lastOp.formatted_prompt # ""

\* multiple_choice with only Task has failed, naming Question and Options
C1_Witness ==
    /\ lastOp.op = "format" /\ lastOp.arg = "multiple_choice"
    /\ lastOp.input = Structured(FvTaskOnly)
    /\ lastOp.raised /\ lastOp.missing = << "Question", "Options" >>

\* C2: calling format twice in a row on the same reformatter with the same
\* structured field values returns the same original rendering, formatted
\* rendering and rule summary both times.
C2_FormatTwiceSame ==
    [][ ( /\ lastOp.op = "format" /\ lastOp'.op = "format"
          /\ lastOp'.r = lastOp.r
          /\ ~lastOp.input.raw /\ lastOp'.input = lastOp.input )
        => ( /\ lastOp'.raised = lastOp.raised
             /\ lastOp'.original_prompt = lastOp.original_prompt
             /\ lastOp'.formatted_prompt = lastOp.formatted_prompt
             /\ lastOp'.formatting_summary = lastOp.formatting_summary ) ]_vars

\* the rendering of field values by a template object that has no
\* reformatter attribute
CanonicalRendering(template_name, fv) ==
    TemplateFormat(DEFAULT_TEMPLATES[template_name], fv, FALSE, NewReformatter).text

\* C3: for structured field values the original rendering returned by format
\* is the rendering with no formatting rule applied, whatever calls were made
\* before.
C3_OriginalIsCanonical ==
    (lastOp.op = "format" /\ ~lastOp.input.raw /\ ~lastOp.raised)
        => lastOp.original_prompt = CanonicalRendering(lastOp.arg, lastOp.input.fv)

\* C4: format of a raw text from which extract_fields recovers no field
\* returns the text unchanged as original rendering, and a formatted
\* rendering, without raising.
C4_RawTextFallback ==
    ( /\ lastOp.op = "format" /\ lastOp.input.raw
      /\ DOMAIN ExtractFields(DEFAULT_TEMPLATES[lastOp.arg], lastOp.input.text) = {} )
        => ( /\ ~lastOp.raised
             /\ lastOp.original_prompt = lastOp.input.text )

\* the name a summary must report for a rule list
ActiveName(rules) == IF rules = <<>> THEN "None" ELSE Head(rules).name

\* what C5 says of a summary of the reformatter rf
SummaryOf(summary, rf) ==
    /\ DOMAIN summary = {"separator", "casing", "item_formatting", "enumeration"}
    /\ Cardinality(DOMAIN summary) = 4
    /\ summary["separator"] = ActiveName(rf.separator_rules)
    /\ summary["casing"] = ActiveName(rf.casing_rules)
    /\ summary["item_formatting"] = ActiveName(rf.item_formatting_rules)
    /\ summary["enumeration"] = ActiveName(rf.enumeration_rules)
    /\ summary["separator"] = "None" => rf.separator_rules = <<>>
    /\ summary["casing"] = "None" => rf.casing_rules = <<>>
    /\ summary["item_formatting"] = "None" => rf.item_formatting_rules = <<>>
    /\ summary["enumeration"] = "None" => rf.enumeration_rules = <<>>

\* C5: get_formatting_summary, and the summary returned by format, has
\* exactly four entries, one per axis; each is the name of the first rule of
\* the axis's list, and "None" only if the list is empty.
C5_SummaryFourEntries ==
    /\ \A r \in RefIds : SummaryOf(GetFormattingSummary(refs[r]), refs[r])
    /\ (lastOp.op = "format" /\ ~lastOp.raised)
          => SummaryOf(lastOp.formatting_summary, refs[lastOp.r])

\* a caller has emptied the casing list and format reports "None" for it only
C5_Witness ==
    /\ lastOp.op = "format" /\ ~lastOp.raised
    /\ refs[lastOp.r].casing_rules = <<>>
    /\ lastOp.formatting_summary["casing"] = "None"
    /\ lastOp.formatting_summary["separator"] = "Empty"

\* the step is add_rule(axis, rule) on reformatter r with a recognized axis
C6_Installed(r, axis, rule) ==
    /\ ~lastOp'.raised
    /\ RulesOf(refs'[r], axis) # <<>>
    /\ Head(RulesOf(refs'[r], axis)) = rule
    /\ Tail(RulesOf(refs'[r], axis)) = RulesOf(refs[r], axis)
    /\ GetFormattingSummary(refs'[r])[axis] = rule.name
    /\ \A other \in Axes \ {axis} : RulesOf(refs'[r], other) = RulesOf(refs[r], other)
    /\ refs'[r].template = refs[r].template
    /\ \A q \in RefIds \ {r} : refs'[q] = refs[q]

\* the step is a format call of reformatter r right after add_rule(axis, rule)
C6_Used(r, axis, rule) ==
    ~lastOp'.raised =>
        /\ lastOp'.formatting_summary[axis] = rule.name
        /\ lastOp'.formatted_prompt =
              TemplateFormat(DEFAULT_TEMPLATES[refs[r].template], lastOp'.input.fv, TRUE,
                             WithRules(refs[r], axis, << rule >>)).text

\* C6: after add_rule(axis, rule) with a recognized axis, rule is the first
\* rule of the axis: the summary names it, the next rendering uses it, the
\* rules installed before follow it in unchanged order, and the other axes'
\* lists and the template are unchanged.
C6_AddRuleInstallsFirst ==
    [][ /\ (lastOp'.op = "add_rule" /\ lastOp'.arg \in Axes)
            => C6_Installed(lastOp'.r, lastOp'.arg, lastOp'.rule)
        /\ ( /\ lastOp.op = "add_rule" /\ lastOp.arg \in Axes
             /\ lastOp'.op = "format" /\ lastOp'.r = lastOp.r /\ ~lastOp'.input.raw )
            => C6_Used(lastOp.r, lastOp.arg, lastOp.rule) ]_vars

\* the Upper casing rule was added to a reformatter whose next rendering has
\* upper-case labels
C6_Witness ==
    /\ lastOp.op = "format" /\ ~lastOp.raised
    /\ lastOp.input = Structured(FvGeneral)
    /\ refs[lastOp.r].casing_rules = << CasingRule("Upper") >> \o CasingDefaultRules
    /\ lastOp.formatting_summary["casing"] = "Upper"
    /\ lastOp.formatted_prompt = "TASKAdd two numbers\n\nINPUT2+2"

\* C7: add_rule with an axis name other than the four recognized ones fails
\* and leaves the rule lists of every reformatter and the templates unchanged.
C7_UnknownAxisFails ==
    [][ (lastOp'.op = "add_rule" /\ lastOp'.arg \notin
            {"separator", "casing", "item_formatting", "enumeration"})
        => (lastOp'.raised /\ refs' = refs /\ bound' = bound) ]_vars

\* add_rule("ordering", rule) has raised on a reformatter switched to
\* multiple_choice before
C7_Witness ==
    /\ lastOp.op = "add_rule" /\ lastOp.arg = "ordering" /\ lastOp.raised
    /\ refs[lastOp.r] = [NewReformatter EXCEPT !.template = "multiple_choice"]

\* C8: set_template(name) makes the registry template called name the active
\* template when name is general or multiple_choice; for any other name it
\* fails and the active template and the four rule lists stay as they were.
C8_SetTemplate ==
    [][ lastOp'.op = "set_template" =>
          LET r == lastOp'.r
          IN /\ \A q \in RefIds \ {r} : refs'[q] = refs[q]
             /\ \A axis \in Axes : RulesOf(refs'[r], axis) = RulesOf(refs[r], axis)
             /\ bound' = bound
             /\ IF lastOp'.arg \in {"general", "multiple_choice"}
                THEN ~lastOp'.raised /\ refs'[r].template = lastOp'.arg
                ELSE lastOp'.raised /\ refs'[r].template = refs[r].template ]_vars

\* a reformatter was switched to multiple_choice, and an unknown name was
\* then refused
C8_Witness ==
    /\ lastOp.op = "set_template" /\ lastOp.arg = "chat" /\ lastOp.raised
    /\ refs[lastOp.r].template = "multiple_choice"

\* C9: an improve call that returns has recorded exactly num_iterations *
\* num_candidates candidates, which is num_candidates_evaluated and the length
\* of all_scores; the list of recorded candidates only grows by appending, and
\* every recorded candidate has its score set.
C9_RecordsAllCandidates ==
    [][ /\ pc' = "done" =>
            /\ run'.result.num_candidates_evaluated
                  = run'.num_iterations * run'.num_candidates
            /\ Len(run'.result.all_scores) = run'.result.num_candidates_evaluated
            /\ Len(run'.all_candidates) = run'.result.num_candidates_evaluated
        /\ pc' # "idle" =>
            /\ \/ run'.all_candidates = run.all_candidates
               \/ /\ Len(run'.all_candidates) = Len(run.all_candidates) + 1
                  /\ SubSeq(run'.all_candidates, 1, Len(run.all_candidates))
                        = run.all_candidates
            /\ \A i \in 1..Len(run'.all_candidates) : run'.all_candidates[i].score.set
            /\ \A i \in 1..Len(run'.result.all_scores) : run'.result.all_scores[i].set
      ]_vars

\* two iterations of one candidate each have returned two scores
C9_Witness ==
    /\ pc = "done" /\ run.num_iterations = 2 /\ run.num_candidates = 1
    /\ run.result.num_candidates_evaluated = 2
    /\ Len(run.result.all_scores) = 2

\* the recorded scores, and the positions of those no other score exceeds
RecordedScores == [i \in 1..Len(run.all_candidates) |-> run.all_candidates[i].score.value]
MaxPositions ==
    { i \in 1..Len(run.all_candidates) :
        \A j \in 1..Len(run.all_candidates) :
            ~FloatGT(RecordedScores[j], RecordedScores[i]) }

\* C10: once a candidate is recorded, the best score is the maximum of the
\* recorded scores and the best candidate is the earliest recorded candidate
\* with that score; improve returns that score as improvement_score and that
\* candidate as best_format.
C10_BestIsFirstMaximum ==
    run.all_candidates # <<>> =>
        /\ run.best_candidate \in MaxPositions
        /\ \A i \in MaxPositions : run.best_candidate <= i
        /\ run.best_score = RecordedScores[run.best_candidate]
        /\ pc = "done" =>
              /\ run.result.improvement_score = RecordedScores[run.best_candidate]
              /\ run.result.best_format
                    = CandidateToDict(run.all_candidates[run.best_candidate])
              /\ \A i \in 1..Len(run.result.all_scores) :
                    ~FloatGT(run.result.all_scores[i].value,
                             run.result.improvement_score)

\* improve has returned after two candidates with the same score, and reports
\* the first
C10_Witness ==
    /\ pc = "done" /\ Len(run.all_candidates) = 2
    /\ run.all_candidates[1].score = run.all_candidates[2].score
    /\ run.all_candidates[1].casing_rule # run.all_candidates[2].casing_rule
    /\ run.best_candidate = 1
    /\ run.result.best_format = CandidateToDict(run.all_candidates[1])
    /\ run.result.improvement_score = Float(50)

\* C18: add_rule on one default-constructed reformatter changes neither the
\* rule lists nor the active rules of another reformatter, nor the list a
\* later get_default_rules call returns, nor what a later PromptReformatter()
\* or a later improve run's sampler draws from.
C18_RuleListsNotShared ==
    [][ lastOp'.op = "add_rule" =>
          /\ \A q \in RefIds \ {lastOp'.r} :
                /\ refs'[q] = refs[q]
                /\ GetFormattingSummary(refs'[q]) = GetFormattingSummary(refs[q])
          /\ \A axis \in Axes : GetDefaultRules(axis)' = DefaultCatalog[axis]
          /\ NewReformatter' = NewReformatter
          /\ SampleCandidates' = SampleCandidates ]_vars

\* the Upper casing rule was added to reformatter 1 while reformatter 2 and
\* the casing catalog still start with No Change
C18_Witness ==
    /\ lastOp.op = "add_rule" /\ lastOp.r = 1 /\ lastOp.arg = "casing"
    /\ Head(refs[1].casing_rules) = CasingRule("Upper")
    /\ refs[2].casing_rules = CasingDefaultRules
    /\ GetDefaultRules("casing") = CasingDefaultRules

\* the calls of a run that evaluates n candidates: the baseline completion,
\* then a completion and a judge call per candidate
ExpectedCalls(n) ==
    [i \in 1..(1 + 2 * n) |-> IF i = 1 \/ i % 2 = 0 THEN "target_model" ELSE "judge_model"]

\* C11: an improve run with N iterations of K candidates that returns has
\* made exactly 1 + 2 * N * K collaborator calls: the baseline completion,
\* then for each candidate a completion followed by a judge call; the calls
\* are complete when the loop ends and finalization adds none.
C11_CollaboratorCalls ==
    pc \in {"finalize", "done"} =>
        /\ Len(run.calls) = 1 + 2 * run.num_iterations * run.num_candidates
        /\ run.calls = ExpectedCalls(run.num_iterations * run.num_candidates)

\* a run of one iteration with two candidates has returned after five calls
C11_Witness ==
    /\ pc = "done" /\ run.num_iterations = 1 /\ run.num_candidates = 2
    /\ run.calls = << "target_model", "target_model", "judge_model",
                      "target_model", "judge_model" >>

\* the score the clamp must give for each judge output of the model, in
\* hundredths
ClampedHundredths == ("0.5" :> 50) @@ ("1.5" :> 100) @@ ("-3" :> 0) @@ ("abc" :> 0)

\* C12: the score of a candidate is the judge's number clamped to [0, 1]
\* ("1.5" gives 1.0, "-3" gives 0.0); an output that is no number gives 0.0
\* and is logged, and the run goes on to record the candidate; every recorded
\* score lies in [0, 1].
C12_JudgeScoreClamped ==
    /\ run.judge.content # "" =>
          /\ pc = "record"
          /\ run.judge.content \in DOMAIN ClampedHundredths
          /\ run.score = Float(ClampedHundredths[run.judge.content])
          /\ run.judge.content = "abc" => run.judge.logged
    /\ \A i \in 1..Len(run.all_candidates) :
          LET s == run.all_candidates[i].score.value
          IN ~FloatGT(Float(0), s) /\ ~FloatGT(s, Float(100))

\* the judge said "1.5" for the first candidate, recorded as 1.0, and "abc"
\* for the second, which is about to be recorded with 0.0
C12_Witness ==
    /\ pc = "record" /\ run.judge.content = "abc" /\ run.judge.logged
    /\ run.score = Float(0)
    /\ Len(run.all_candidates) = 1
    /\ run.all_candidates[1].score = SomeScore(Float(100))

\* C13: a completion or judge call that raises while a candidate is being
\* evaluated does not abort improve: the run goes on with the judge call,
\* the recording or the next candidate, and never leaves the loop by the
\* exception.
C13_CollaboratorErrorDoesNotAbort ==
    [][ (pc = "complete" \/ pc = "judge") =>
          pc' \in {"complete", "judge", "record", "sample", "finalize"} ]_vars

\* the table of Roman numerals for 1..10
RomanTable == << "I", "II", "III", "IV", "V", "VI", "VII", "VIII", "IX", "X" >>
RomanTableLower == << "i", "ii", "iii", "iv", "v", "vi", "vii", "viii", "ix", "x" >>

\* C14: for every index i in 1..10 the uppercase-Roman enumeration rule
\* applied to the token str(i) gives the table entry of i, and the
\* lowercase-Roman rule gives the lowercase of that entry.
C14_RomanTable ==
    \A i \in 1..10 :
        (app.kind = "enumeration" /\ app.prompt = IntToStr(i)) =>
            /\ app.rule = "Roman Upper" => app.text = RomanTable[i]
            /\ app.rule = "Roman Lower" => app.text = RomanTableLower[i]

\* C15: for an index above 10 a Roman or alphabetic enumeration rule applied
\* to the index token returns the numeric token unchanged (apply raises
\* nothing), never another token.
C15_AboveTenFallsBack ==
    \A i \in 11..MaxIndex :
        ( /\ app.kind = "enumeration" /\ app.prompt = IntToStr(i)
          /\ app.rule \in {"Roman Upper", "Roman Lower", "Alpha Upper", "Alpha Lower"} )
            => app.text = app.prompt

\* whether a text is title-cased as str.istitle() has it: an upper-case
\* letter only after a character that is no letter, a lower-case letter only
\* after a letter, and at least one letter
RECURSIVE TitleCasedFrom(_, _, _)
TitleCasedFrom(s, prevCased, seen) ==
    IF s = "" THEN seen
    ELSE LET c == CharAt(s, 1)
         IN /\ IsUpper(c) => ~prevCased
            /\ IsLower(c) => prevCased
            /\ TitleCasedFrom(Tail(s), IsCased(c), seen \/ IsCased(c))
IsTitleCased(s) == TitleCasedFrom(s, FALSE, FALSE)

\* C17: on non-empty text, applying the Upper casing rule to the result of
\* Upper changes nothing, likewise Lower after Lower and Title after Title;
\* Title leaves title-cased text unchanged and No Change leaves every text
\* unchanged.
C17_CasingIdempotent ==
    [][ app'.kind = "casing" =>
          /\ app'.prompt = app.text /\ app.text # ""
          /\ (app.kind = "casing" /\ app.rule = app'.rule) => app'.text = app.text
          /\ (app'.rule = "Title" /\ IsTitleCased(app.text)) => app'.text = app.text
          /\ app'.rule = "No Change" => app'.text = app.text ]_vars

\* Upper was applied to "HELLO WORLD", itself the result of Upper
C17_Witness ==
    /\ app.kind = "casing" /\ app.rule = "Upper" /\ app.n = 2
    /\ app.prompt = "HELLO WORLD" /\ app.text = "HELLO WORLD"

\* C16: the general template rendered with Task "Add two numbers" and Input
\* "2+2" under the single-space separator rule and the Upper casing rule is
\* exactly "TASK Add two numbers\n\nINPUT 2+2": upper-case labels, unchanged
\* values, label and value joined by the space, sections by a double newline.
C16_UpperSpaceRendering ==
    ( /\ pc = "complete"
      /\ run.field_values = FvGeneral
      /\ run.candidate.separator_rule = SeparatorRule("Space", " ")
      /\ run.candidate.casing_rule = CasingRule("Upper") )
        => run.formatted_prompt = "TASK Add two numbers\n\nINPUT 2+2"

\* the sampler drew Space and Upper for the general input and the prompt of
\* the candidate is rendered
C16_Witness ==
    /\ pc = "complete" /\ run.passed = FvGeneral
    /\ run.candidate.separator_rule.separator = " "
    /\ run.candidate.casing_rule.name = "Upper"
    /\ run.formatted_prompt = "TASK Add two numbers\n\nINPUT 2+2"

\* C19: improve returns best_format None exactly when it evaluated no
\* candidate, which does not happen when num_iterations * num_candidates is
\* at least 1; with None the improved prompt is the original prompt and the
\* improved response the baseline response.
C19_NoImprovementSentinel ==
    pc = "done" =>
        /\ run.result.best_format.is_none <=> run.result.num_candidates_evaluated = 0
        /\ run.result.best_format.is_none <=> run.result.best_format = NoneFormat
        /\ run.num_iterations * run.num_candidates >= 1
              => ~run.result.best_format.is_none
        /\ run.result.best_format.is_none =>
              /\ run.result.improved_prompt = run.result.original_prompt
              /\ run.result.improved_response = run.result.original_response
              /\ run.result.original_response = run.original_response

\* a run of two iterations without candidates has returned None and the
\* baseline
C19_Witness ==
    /\ pc = "done" /\ run.num_iterations = 2 /\ run.num_candidates = 0
    /\ run.result.best_format = NoneFormat
    /\ run.result.improved_prompt = run.original_prompt
    /\ run.result.improved_response = "2+2 is 4"

\* the order of the steps of a run: from each position, the positions that
\* may follow
StepOrder ==
    [idle |-> {"baseline", "raised"}, baseline |-> {"sample", "finalize"},
     sample |-> {"render"}, render |-> {"complete"}, complete |-> {"judge"},
     judge |-> {"record"}, record |-> {"sample", "finalize"},
     finalize |-> {"done"}, done |-> {"idle"}, raised |-> {"idle"}]

\* C20: a run goes Idle, Baseline-Eval, then Sample, Render,
\* Collaborator-Call, Judge-Call, Record once per candidate, then Finalize:
\* no candidate is sampled before the baseline response is there, a
\* candidate's five steps are taken in this order before the next is sampled,
\* Finalize follows the last of the num_iterations * num_candidates records
\* only, and with collaborators that always return a started run reaches
\* Finalize and returns.
C20_SearchLoopOrder ==
    /\ [][ /\ pc' # pc => pc' \in StepOrder[pc]
           /\ pc' = "sample" =>
                 /\ Len(run'.calls) = 1 + 2 * Len(run'.all_candidates)
                 /\ Len(run'.all_candidates)
                       < run'.num_iterations * run'.num_candidates
           /\ pc' = "finalize" =>
                 Len(run'.all_candidates)
                    = run'.num_iterations * run'.num_candidates ]_vars
    /\ (pc = "baseline") ~> (pc = "finalize")
    /\ (pc = "finalize") ~> (pc = "done")

\* the second candidate of a run has been recorded and the run is at
\* Finalize
C20_Witness ==
    /\ pc = "finalize" /\ Len(run.all_candidates) = 2
    /\ run.num_iterations = 2 /\ run.num_candidates = 1
    /\ Len(run.calls) = 5

\* C21: the baseline response is obtained once per improve call, before the
\* first candidate, and stays the anchor of the run: the original prompt and
\* the baseline response do not change while the run goes on, and every judge
\* call gets this original prompt and this baseline response as its first
\* two arguments and the candidate's response as its third.
C21_BaselineIsAnchor ==
    [][ /\ (pc \notin {"idle", "baseline"} /\ pc' # "idle") =>
              /\ run'.original_prompt = run.original_prompt
              /\ run'.original_response = run.original_response
        /\ (pc = "baseline" /\ pc' # "raised") =>
              /\ run.calls = <<>> /\ run'.calls = << "target_model" >>
              /\ run'.original_prompt = run.original_prompt
        /\ (pc = "judge" /\ pc' = "record") =>
              /\ run'.judge.args[1] = run.original_prompt
              /\ run'.judge.args[2] = run.original_response
              /\ run'.judge.args[3] = run.model_response
              /\ run.calls[1] = "target_model" ]_vars

\* the judge is called for the second candidate, after a first candidate
\* whose response became the best response, and is shown the baseline
C21_Witness ==
    /\ pc = "record" /\ Len(run.all_candidates) = 1
    /\ run.best_response = "4" /\ run.original_response = "2+2 is 4"
    /\ run.judge.args = << "Task\nAdd two numbers\n\nInput\n2+2", "2+2 is 4", "four" >>

\* p stands in s at position i; p stands somewhere in s
OccursAt(s, p, i) == i + Len(p) - 1 <= Len(s) /\ SubSeq(s, i, i + Len(p) - 1) = p
Occurs(s, p) == \E i \in 1..Len(s) : OccursAt(s, p, i)

\* the label of a field as the rendering in `ren` cases it, followed by the
\* active separator
RenderedHead(field) ==
    (IF ren.has THEN CasingApply(ren.rf.casing_rules[1], field) ELSE field)
    \o (IF ren.has THEN ren.rf.separator_rules[1].separator ELSE "\n")

\* text is made of sections that begin with the heads, in this order, each
\* after the first directly behind a double line break
RECURSIVE SectionsIn(_, _)
SectionsIn(text, heads) ==
    IF heads = <<>> THEN text = ""
    ELSE /\ StartsWith(text, heads[1])
         /\ \/ Len(heads) = 1
            \/ \E p \in (Len(heads[1]) + 1)..(Len(text) - 1) :
                  /\ SubSeq(text, p, p + 1) = "\n\n"
                  /\ SectionsIn(SubSeq(text, p + 2, Len(text)), Tail(heads))

\* the declared fields of the rendered template that the field values supply
SuppliedFields ==
    SelectSeq(DEFAULT_TEMPLATES[ren.template].fields,
              LAMBDA f : f \in DOMAIN ren.field_values)
\* an Examples value that is a list without any Example object
HoldsNoExample(f) ==
    /\ f = "Examples"
    /\ ren.field_values[f].kind = "list"
    /\ \A i \in 1..Len(ren.field_values[f].v) : ren.field_values[f].v[i].kind # "Example"
HeadsOf(fields) == [k \in 1..Len(fields) |-> RenderedHead(fields[k])]

\* C22 as stated: a rendering is one section for every declared field that
\* the field values supply, in the declared order, joined by a double line
\* break
C22_SectionPerSuppliedField ==
    (ren.kind = "rendered" /\ ~ren.raised) =>
        SectionsIn(ren.text, HeadsOf(SuppliedFields))

\* C22, amended: a rendering is one section for every declared field that the
\* field values supply, except an Examples list that holds no Example object,
\* in the declared order, each section beginning with the cased label and the
\* active separator, the sections joined by a double line break; a key that
\* the template does not declare leaves no trace
C22_SectionPerRenderedField ==
    (ren.kind = "rendered" /\ ~ren.raised) =>
        /\ SectionsIn(ren.text,
                      HeadsOf(SelectSeq(SuppliedFields, LAMBDA f : ~HoldsNoExample(f))))
        /\ "Note" \in DOMAIN ren.field_values =>
              /\ ~Occurs(ren.text, RenderedHead("Note"))
              /\ ~Occurs(ren.text, ren.field_values["Note"].v)
        /\ \A f \in DOMAIN ren.field_values :
              (f = "Examples" /\ HoldsNoExample(f)) =>
                  ~Occurs(ren.text, RenderedHead("Examples"))

C22_Witness ==
    /\ ren.kind = "rendered"
    /\ ren.field_values = FvApples
    /\ ren.has
    /\ ren.rf.separator_rules[1].name = "Double Dash"
    /\ ren.rf.casing_rules[1].name = "Upper"
    /\ StartsWith(ren.text, "TASK -- Count the Fruit\n\nEXAMPLES -- EXAMPLE ")
    /\ Occurs(ren.text, "\n\nINPUT -- I have 2 apples")

\* the token of index i under the rule selection of `ren`: the enumeration
\* rule applied to the index, put into the format template of the item
\* formatting rule
SelectedToken(i) ==
    StrFormat(ren.rf.item_formatting_rules[1].format_str,
              EnumerationApply(ren.rf.enumeration_rules[1], IntToStr(i)))
\* the items of a list field of the rendered template, none if it has none
RenderedItems(field) ==
    IF /\ Declares(DEFAULT_TEMPLATES[ren.template], field)
       /\ field \in DOMAIN ren.field_values
       /\ ren.field_values[field].kind = "list"
    THEN ren.field_values[field].v
    ELSE <<>>

\* C23: in a rendering under a rule selection, the i-th example is headed by
\* "Example" and the token of i, and the i-th option is preceded by the token
\* of i, where the token is the enumeration rule applied to the index and then
\* wrapped by the format template of the item formatting rule, for both kinds
\* of list
C23_EnumeratorTokens ==
    (ren.kind = "rendered" /\ ~ren.raised /\ ren.has) =>
        /\ \A i \in 1..Len(RenderedItems("Examples")) :
              /\ ren.example_numbers[i] = SelectedToken(i)
              /\ Occurs(ren.text,
                          CasingApply(ren.rf.casing_rules[1], "Example") \o " "
                          \o SelectedToken(i) \o ren.rf.separator_rules[1].separator
                          \o CasingApply(ren.rf.casing_rules[1], "Input") \o ": "
                          \o RenderedItems("Examples")[i].input)
        /\ \A i \in 1..Len(RenderedItems("Options")) :
              /\ ren.formatted_numbers[i] = SelectedToken(i)
              /\ Occurs(ren.text,
                          SelectedToken(i) \o ren.rf.separator_rules[1].separator
                          \o RenderedItems("Options")[i].v)

C23_Witness ==
    /\ ren.kind = "rendered"
    /\ ren.template = "multiple_choice"
    /\ ren.field_values = FvQuiz
    /\ ren.has
    /\ ren.rf.enumeration_rules[1].name = "Roman Upper"
    /\ ren.rf.item_formatting_rules[1].name = "Brackets"
    /\ ren.rf.separator_rules[1].name = "Space"
    /\ ren.rf.casing_rules[1].name = "No Change"
    /\ Occurs(ren.text, "Example [I] Input: Capital of Italy?")
    /\ Occurs(ren.text, "Options [I] Paris -- [II] Rome")

\* C24: a rendering of a template that declares Options, given an Options
\* list, shows every option text, in the order of the list, whether or not a
\* reformatter is bound to the template
C24_OptionsAlwaysEmitted ==
    (ren.kind = "rendered" /\ ~ren.raised) =>
        /\ \A i \in 1..Len(RenderedItems("Options")) :
              Occurs(ren.text, RenderedItems("Options")[i].v)
        /\ \A i \in 1..(Len(RenderedItems("Options")) - 1) :
              \E a \in 1..Len(ren.text) :
                  /\ OccursAt(ren.text, RenderedItems("Options")[i].v, a)
                  /\ \E b \in (a + 1)..Len(ren.text) :
                        OccursAt(ren.text, RenderedItems("Options")[i + 1].v, b)

\* C25: in a rendering under a rule selection every supplied value stands
\* unchanged behind its label or token: the value of a text field behind the
\* cased label and the separator, the input and the output of an example
\* behind the cased "Input: " and "Output: ", an option text behind its token
\* and the separator; casing and enumeration rules change none of them
C25_ValuesVerbatim ==
    (ren.kind = "rendered" /\ ~ren.raised /\ ren.has) =>
        /\ \A f \in DOMAIN ren.field_values :
              (Declares(DEFAULT_TEMPLATES[ren.template], f)
               /\ ren.field_values[f].kind = "str") =>
                  Occurs(ren.text, RenderedHead(f) \o ren.field_values[f].v)
        /\ \A i \in 1..Len(RenderedItems("Examples")) :
              /\ Occurs(ren.text,
                          CasingApply(ren.rf.casing_rules[1], "Input") \o ": "
                          \o RenderedItems("Examples")[i].input
                          \o ren.rf.separator_rules[1].separator
                          \o CasingApply(ren.rf.casing_rules[1], "Output") \o ": "
                          \o RenderedItems("Examples")[i].output)
        /\ \A i \in 1..Len(RenderedItems("Options")) :
              Occurs(ren.text,
                       ren.formatted_numbers[i] \o ren.rf.separator_rules[1].separator
                       \o RenderedItems("Options")[i].v)

C25_Witness ==
    /\ ren.kind = "rendered"
    /\ ren.template = "general"
    /\ ren.field_values = FvApples
    /\ ren.has
    /\ ren.rf.casing_rules[1].name = "Upper"
    /\ ren.rf.enumeration_rules[1].name = "Roman Upper"
    /\ ren.rf.item_formatting_rules[1].name = "Parentheses"
    /\ ren.rf.separator_rules[1].name = "Space"
    /\ Occurs(ren.text, "INPUT I have 2 apples")
    /\ Occurs(ren.text, "EXAMPLE (II) INPUT: 2 figs and 10 kiwis OUTPUT: 12")

\* C30: in a rendering under a rule selection of default rules, the items of
\* a list get pairwise distinct enumerator tokens, however long the list is
C30_DistinctTokens ==
    (ren.kind = "rendered" /\ ~ren.raised /\ ren.has) =>
        /\ \A i, j \in 1..Len(ren.formatted_numbers) :
              i # j => ren.formatted_numbers[i] # ren.formatted_numbers[j]
        /\ \A i, j \in 1..Len(ren.example_numbers) :
              i # j => ren.example_numbers[i] # ren.example_numbers[j]

\* C29: the format command never ends with the unknown-model error of
\* get_model_rules for a model name that is one of the choices of --model
C29_AdvertisedModelsResolve ==
    (ren.kind = "cli" /\ ren.model \in ModelChoices) => ren.text # "Unknown model"

\* C26: when improve returns a best format, the four result fields describe
\* one recorded candidate: best_format is its to_dict, improvement_score its
\* score, improved_response the response the collaborator gave for it, and
\* improved_prompt the very prompt that was sent to the collaborator for it
C26_ResultOfOneCandidate ==
    (pc = "done" /\ ~run.result.best_format.is_none) =>
        /\ run.best_candidate \in 1..Len(run.all_candidates)
        /\ run.result.best_format = CandidateToDict(run.all_candidates[run.best_candidate])
        /\ run.all_candidates[run.best_candidate].score
              = SomeScore(run.result.improvement_score)
        /\ run.result.improved_response = run.best_sent.response
        /\ run.result.improved_prompt = run.best_sent.prompt
        /\ run.best_sent.prompt
              = FormatPrompt(run.field_values, run.all_candidates[run.best_candidate],
                             bound, refs).formatted_prompt

\* the first of two candidates is the best one and the second was rendered
\* differently
C26_Witness ==
    /\ pc = "done"
    /\ Len(run.all_candidates) = 2
    /\ run.best_candidate = 1
    /\ run.formatted_prompt # run.result.improved_prompt
    /\ run.model_response # run.result.improved_response
    /\ run.result.improved_prompt = "TASK Add two numbers\n\nINPUT 2+2"

\* C27: a candidate prompt is rendered with the template improve selected for
\* the input: for an input with Question and Options, the prompt sent to the
\* collaborator for a candidate shows the question and every option
C27_CandidateUsesSelectedTemplate ==
    (pc = "complete" /\ ImproveTemplate(run.passed) = "multiple_choice") =>
        /\ Contains(run.formatted_prompt, run.passed["Question"].v)
        /\ \A i \in 1..Len(run.passed["Options"].v) :
              Contains(run.formatted_prompt, run.passed["Options"].v[i].v)

\* C28: improve leaves the mapping the caller passed as it was
C28_CallerMappingUnchanged ==
    pc # "idle" => run.field_values = run.passed

====
